---- MODULE Spec2Model ----
(***************************************************************************)
(* A model of corpus_distance's matrix assembly, outgroup detection,       *)
(* measurement recording and topic range:                                  *)
(*   clusterisation/utils.py        create_distance_matrix, detect_outgroup*)
(*   distance_measurement/analysis.py  save_distances_info,                *)
(*                                     save_data_for_analysis              *)
(*   data_preprocessing/topic_modelling.py  set_topic_range                *)
(* Python sequences are 0-based, TLA+ sequences 1-based: index i of the    *)
(* code is index i+1 here.                                                 *)
(***************************************************************************)
EXTENDS Integers, Sequences, FiniteSets, TLC

VARIABLES
    lects,               \* create_distance_matrix: the argument lects
    pairwise_distances,  \* create_distance_matrix: the argument pairwise_distances
    matrix_result,       \* create_distance_matrix: not called / returned / raised
    files,               \* the filesystem: every file path -> absent or its content
    call,                \* the last call of a function and how it ended
    before               \* the filesystem as it was when that call began

vars == <<lects, pairwise_distances, matrix_result, files, call, before>>

(***************************************************************************)
(* Bounds of the model.                                                    *)
(***************************************************************************)
MaxRecords == 3
MaxLines == 2
MaxPairs == 2
\* the most topics a model has
MaxTopics == 10

(***************************************************************************)
(* How a call ends.                                                        *)
(***************************************************************************)
NotCalled == [called |-> FALSE]
Returned(v) == [value |-> v]
Raised(e) == [exception |-> e]
IsReturned(r) == DOMAIN r = {"value"}
IsRaised(r) == DOMAIN r = {"exception"}

SeqsUpTo(S, n) == UNION {[1..k -> S] : k \in 0..n}
DistinctSeqsUpTo(S, n) ==
    {s \in SeqsUpTo(S, n) : \A i, j \in 1..Len(s) : i # j => s[i] # s[j]}

(***************************************************************************)
(* create_distance_matrix (clusterisation/utils.py)                        *)
(***************************************************************************)
LectNames == {"Croatian", "Slovak", "Slovenian"}
Distances == {4, 5}
\* a record d is ((name, name), distance): d[0] is d[1] here, d[1] is d[2];
\* the records a caller holds are distances between two different lects
PairwiseRecords(names) ==
    {<<p, x>> : p \in {q \in names \X names : q[1] # q[2]}, x \in Distances}

\* a bug: the names are compared in the order the record lists them
SamePairOrdered(x, y, d) == x = d[1][1] /\ y = d[1][2]

\* set([lects[i], lects[j]]) == set([d[0][0], d[0][1]])
SamePair(x, y, d) == {x, y} = {d[1][1], d[1][2]}

\* [d[1] for d in pairwise_distances if set(...) == set(...)]
Matching(pd, x, y) ==
    LET sel == SelectSeq(pd, LAMBDA d : SamePair(x, y, d))
    IN  [k \in 1..Len(sel) |-> sel[k][2]]

\* a bug: a missing pair is filled with a default distance
Index0OrDefault(list) ==
    IF list = <<>> THEN Returned(0) ELSE Returned(list[1])

\* a bug: the last matching record is taken
IndexLast(list) ==
    IF list = <<>> THEN Raised("IndexError") ELSE Returned(list[Len(list)])

\* [...][0]: the first element, IndexError on an empty list
Index0(list) ==
    IF list = <<>> THEN Raised("IndexError") ELSE Returned(list[1])

\* a bug: the diagonal entry is not appended
RowWithoutDiagonal(pd, ls, i) ==
    LET dist == [j \in 1..(i - 1) |-> Index0(Matching(pd, ls[i], ls[j]))]
    IN  IF \E j \in 1..(i - 1) : IsRaised(dist[j])
        THEN Raised("IndexError")
        ELSE Returned([j \in 1..(i - 1) |-> dist[j].value])

\* one pass of the outer loop: the entries j < i, then the appended 0
Row(pd, ls, i) ==
    LET dist == [j \in 1..(i - 1) |-> Index0(Matching(pd, ls[i], ls[j]))]
    IN  IF \E j \in 1..(i - 1) : IsRaised(dist[j])
        THEN Raised("IndexError")
        ELSE Returned([j \in 1..i |-> IF j < i THEN dist[j].value ELSE 0])

create_distance_matrix(pd, ls) ==
    LET rows == [i \in 1..Len(ls) |-> Row(pd, ls, i)]
    IN  IF \E i \in 1..Len(ls) : IsRaised(rows[i])
        THEN Raised("IndexError")
        ELSE Returned([i \in 1..Len(ls) |-> rows[i].value])

(***************************************************************************)
(* The filesystem the recording functions write to.                        *)
(***************************************************************************)
StorePaths == {"out", "nodir"}
Directories == {"out"}
DatasetNames == {"gospels"}
MetricsNames == {"hybrid"}
\* the two lects of one comparison
ComparedLects == {"Croatian", "Slovak"}

\* os.path.isdir
isdir(path) == path \in Directories

\* os.path.join(store_path, name); a name is the tuple of the strings that
\* + concatenates
join(store_path, name) == <<store_path, name>>

InfoName(metrics) == <<metrics, ".info">>
NewickName(metrics) == <<metrics, ".newick">>
CsvName(metrics, a, b) == <<metrics, "_", a, "_", b, ".csv">>

FileNames ==
    {InfoName(m) : m \in MetricsNames} \cup {NewickName(m) : m \in MetricsNames}
    \cup {CsvName(m, a, b) : m \in MetricsNames, a \in ComparedLects, b \in ComparedLects}

FilePaths == {join(d, n) : d \in Directories, n \in FileNames}

NoFile == [exists |-> FALSE]
File(content) == [exists |-> TRUE, content |-> content]
EmptyDisk == [p \in FilePaths |-> NoFile]

\* open(path, "w").write(text): the file holds text and nothing else
OpenWrite(fs, path, text) == [fs EXCEPT ![path] = File(text)]

\* open(path, "a").write(text): text follows what the file held
OpenAppend(fs, path, text) ==
    [fs EXCEPT ![path] =
        IF fs[path].exists THEN File(fs[path].content \o text) ELSE File(text)]

TAB == "\t"
NL == "\n"
None == "None"

\* '\t'.join(fields)
RECURSIVE JoinTab(_)
JoinTab(fields) ==
    IF Len(fields) <= 1 THEN fields
    ELSE <<Head(fields), TAB>> \o JoinTab(Tail(fields))

\* str() of a number
str(x) == ToString(x)

MeasurementInfoParams ==
    {p \in [dataset_name : DatasetNames, metrics_name : MetricsNames,
            lect_a_name : ComparedLects, lect_b_name : ComparedLects,
            store_path : StorePaths] : p.lect_a_name # p.lect_b_name}

(***************************************************************************)
(* save_distances_info (distance_measurement/analysis.py)                  *)
(***************************************************************************)
distance_info(result, params) ==
    <<params.dataset_name, params.metrics_name,
      params.lect_a_name, params.lect_b_name, str(result)>>

\* a bug: the ledger is opened for writing, not for appending
save_distances_info_truncating(fs, result, params) ==
    IF ~ isdir(params.store_path)
    THEN [files |-> fs, outcome |-> Raised("ValueError")]
    ELSE [files |-> OpenWrite(fs,
                        join(params.store_path, InfoName(params.metrics_name)),
                        JoinTab(distance_info(result, params)) \o <<NL>>),
          outcome |-> Returned(None)]

save_distances_info(fs, result, params) ==
    IF ~ isdir(params.store_path)
    THEN [files |-> fs, outcome |-> Raised("ValueError")]
    ELSE [files |-> OpenAppend(fs,
                        join(params.store_path, InfoName(params.metrics_name)),
                        JoinTab(distance_info(result, params)) \o <<NL>>),
          outcome |-> Returned(None)]

(***************************************************************************)
(* detect_outgroup (clusterisation/utils.py)                               *)
(***************************************************************************)
BranchLengths == {1, 2}
\* the name of a clade that has none
NoName == "<unnamed>"
Leaf(name, length) == [name |-> name, branch_length |-> length, clades |-> <<>>]
Inner(length, names) ==
    [name |-> NoName, branch_length |-> length,
     clades |-> <<Leaf(names[1], 1), Leaf(names[2], 1)>>]
Tree(rooted, first, second) ==
    [rooted |-> rooted, clade |-> [clades |-> <<first, second>>]]

\* the clades a root may have as children: a named leaf, or an unnamed clade
\* of two leaves
RootChildren ==
    {Leaf(n, x) : n \in LectNames, x \in BranchLengths}
    \cup {Inner(x, ns) : x \in BranchLengths,
                         ns \in {<<"Croatian", "Slovak">>, <<"Slovak", "Slovenian">>}}

Trees == {Tree(r, a, b) : r \in BOOLEAN, a \in RootChildren, b \in RootChildren}

\* the text between \t and the ingroup length: the f-string runs over a line
\* break that is escaped, so the next line's indentation is part of it
Indent == "                      "

\* a bug: the two branch lengths are written in the other order
verdict_swapped(tree, outgroup, data_name) ==
    LET clades == tree.clade.clades
    IN  IF outgroup \in {clades[1].name, clades[2].name}
        THEN LET outgroup_clade == IF clades[1].name = outgroup THEN 1 ELSE 2
                 ingroup_clade == IF clades[1].name = outgroup THEN 2 ELSE 1
             IN  <<data_name, TAB, "CORRECT", TAB,
                   str(clades[ingroup_clade].branch_length), TAB,
                   Indent, str(clades[outgroup_clade].branch_length)>>
        ELSE <<data_name, TAB, "INCORRECT", TAB, "NA", TAB, "NA">>

\* what is written to the .info file: clades[0] and clades[1] of the code
\* are clades[1] and clades[2] here
verdict(tree, outgroup, data_name) ==
    LET clades == tree.clade.clades
    IN  IF outgroup \in {clades[1].name, clades[2].name}
        THEN LET outgroup_clade == IF clades[1].name = outgroup THEN 1 ELSE 2
                 ingroup_clade == IF clades[1].name = outgroup THEN 2 ELSE 1
             IN  <<data_name, TAB, "CORRECT", TAB,
                   str(clades[outgroup_clade].branch_length), TAB,
                   Indent, str(clades[ingroup_clade].branch_length)>>
        ELSE <<data_name, TAB, "INCORRECT", TAB, "NA", TAB, "NA">>

\* Phylo.write(tree, path, 'newick'): the clades, their names and lengths
newick(tree) == <<"newick", tree.clade>>

\* a bug: the tree is tested for its root after the verdict is written
detect_outgroup_late_check(fs, tree, outgroup, data_name, metrics, store_path) ==
    IF ~ isdir(store_path)
    THEN [files |-> fs, outcome |-> Raised("ValueError")]
    ELSE LET written == OpenWrite(fs, join(store_path, InfoName(metrics)),
                                  verdict(tree, outgroup, data_name))
         IN  IF tree.rooted = FALSE
             THEN [files |-> written, outcome |-> Raised("ValueError")]
             ELSE [files |-> OpenWrite(written,
                                 join(store_path, NewickName(metrics)), newick(tree)),
                   outcome |-> Returned(None)]

detect_outgroup(fs, tree, outgroup, data_name, metrics, store_path) ==
    IF ~ isdir(store_path)
    THEN [files |-> fs, outcome |-> Raised("ValueError")]
    ELSE IF tree.rooted = FALSE
    THEN [files |-> fs, outcome |-> Raised("ValueError")]
    ELSE LET written == OpenWrite(fs, join(store_path, InfoName(metrics)),
                                  verdict(tree, outgroup, data_name))
         IN  [files |-> OpenWrite(written,
                            join(store_path, NewickName(metrics)), newick(tree)),
              outcome |-> Returned(None)]

(***************************************************************************)
(* save_data_for_analysis (distance_measurement/analysis.py)               *)
(***************************************************************************)
\* Python values that an if tests: None, a dict (its items in insertion
\* order, each (key, value)), a tuple
PyNone == [py |-> "None"]
Dict(items) == [py |-> "dict", items |-> items]
Tuple(items) == [py |-> "tuple", items |-> items]

\* a number where a tuple is expected
PyInt(value) == [py |-> "int", value |-> value]

\* the truth value of None, a number, a dict or a tuple
Truthy(v) ==
    /\ v.py # "None"
    /\ IF v.py = "int" THEN v.value # 0 ELSE v.items # <<>>

\* j[k] of the code, k counted from 0: a number cannot be subscripted, and
\* a tuple has no item behind its last
subscript(j, k) ==
    IF j.py # "tuple" THEN Raised("TypeError")
    ELSE IF k >= Len(j.items) THEN Raised("IndexError")
    ELSE Returned(j.items[k + 1])

NGramsA == {"kruh", "voda"}
NGramsB == {"hlieb"}
IdentityMarkers == {0}

\* the dicts with keys among keys and values among values; the keys are
\* inserted in one order, which decides the order of the rows and no more
Dicts(keys, values) ==
    LET order == CHOOSE o \in [1..Cardinality(keys) -> keys] :
                    \A x \in keys : \E i \in 1..Cardinality(keys) : o[i] = x
    IN  UNION {{Dict([k \in 1..Len(ks) |-> <<ks[k], vs[k]>>]) :
                    vs \in [1..Len(ks) -> values]} :
               ks \in {SelectSeq(order, LAMBDA x : x \in K) : K \in SUBSET keys}}

\* the sequences of (n-gram, distance) pairs a hybrid map holds for one key
PairLists(ngrams) ==
    SeqsUpTo({Tuple(<<n, d>>) : n \in ngrams, d \in Distances}, MaxPairs)

IdentityMaps == {PyNone} \cup Dicts(NGramsA, IdentityMarkers)
ForwardMaps == {PyNone} \cup Dicts(NGramsA, PairLists(NGramsB))
BackwardMaps == {PyNone} \cup Dicts(NGramsB, PairLists(NGramsA))
HybridMaps ==
    {PyNone, Tuple(<<>>)}
    \cup {Tuple(<<f, b>>) : f \in ForwardMaps, b \in BackwardMaps}
AnalysisData == IdentityMaps \X HybridMaps

DistRank(metrics_name) == <<metrics_name, " - DistRank">>
hybrid(metrics_name) == <<metrics_name, " - hybrid">>

\* lines 78-82: one row per key of data_for_analysis[0]
identity_rows(map, metrics_name) ==
    IF Truthy(map)
    THEN Returned([k \in 1..Len(map.items) |->
            <<map.items[k][1], "id.", DistRank(metrics_name), map.items[k][2]>>])
    ELSE Returned(<<>>)

\* the inner loop: one row per j of the sequence a key maps to, the key in
\* the column named by key_column; j[0] or j[1] may raise, and that ends
\* the loop
RECURSIVE rows_of_key(_, _, _, _)
rows_of_key(key, list, label, key_column) ==
    IF list = <<>> THEN Returned(<<>>)
    ELSE LET j == Head(list)
             other_lect_n_gram == subscript(j, 0)
             distance == subscript(j, 1)
         IN  IF IsRaised(other_lect_n_gram) THEN other_lect_n_gram
             ELSE IF IsRaised(distance) THEN distance
             ELSE LET rest == rows_of_key(key, Tail(list), label, key_column)
                  IN  IF IsRaised(rest) THEN rest
                      ELSE Returned(
                            <<IF key_column = 1
                              THEN <<key, other_lect_n_gram.value, label,
                                     distance.value>>
                              ELSE <<other_lect_n_gram.value, key, label,
                                     distance.value>>>>
                            \o rest.value)

\* the outer loop: the keys of the map in their order
RECURSIVE rows_of_items(_, _, _)
rows_of_items(items, label, key_column) ==
    IF items = <<>> THEN Returned(<<>>)
    ELSE LET first == rows_of_key(Head(items)[1], Head(items)[2], label,
                                  key_column)
         IN  IF IsRaised(first) THEN first
             ELSE LET rest == rows_of_items(Tail(items), label, key_column)
                  IN  IF IsRaised(rest) THEN rest
                      ELSE Returned(first.value \o rest.value)

\* lines 86-95
forward_rows(map, metrics_name) ==
    IF Truthy(map)
    THEN rows_of_items(map.items, hybrid(metrics_name), 1)
    ELSE Returned(<<>>)

\* a bug: the rows of the backward map are written like the forward map's
backward_rows_unswapped(map, metrics_name) ==
    IF Truthy(map)
    THEN rows_of_items(map.items, hybrid(metrics_name), 1)
    ELSE Returned(<<>>)

\* a bug: the keys of the map are taken without the if before them
backward_rows_unguarded(map, metrics_name) ==
    IF map.py = "None"
    THEN Raised("AttributeError")
    ELSE rows_of_items(map.items, hybrid(metrics_name), 2)

\* lines 96-102
backward_rows(map, metrics_name) ==
    IF Truthy(map)
    THEN rows_of_items(map.items, hybrid(metrics_name), 2)
    ELSE Returned(<<>>)

\* lines 83-102
hybrid_rows(maps, metrics_name) ==
    IF Truthy(maps)
    THEN LET forward == forward_rows(maps.items[1], metrics_name)
             backward == backward_rows(maps.items[2], metrics_name)
         IN  IF IsRaised(forward) THEN forward
             ELSE IF IsRaised(backward) THEN backward
             ELSE Returned(forward.value \o backward.value)
    ELSE Returned(<<>>)

\* lines 77-102
errors_list(data_for_analysis, metrics_name) ==
    LET identity == identity_rows(data_for_analysis[1], metrics_name)
        hybrids == hybrid_rows(data_for_analysis[2], metrics_name)
    IN  IF IsRaised(identity) THEN identity
        ELSE IF IsRaised(hybrids) THEN hybrids
        ELSE Returned(identity.value \o hybrids.value)

\* DataFrame(errors_list, columns=...).to_csv(path, index=False): the header
\* and one line per row, the distance as text
to_csv(rows, params) ==
    [header |-> <<params.lect_a_name, params.lect_b_name,
                  params.metrics_name, "Distance">>,
     rows |-> [r \in 1..Len(rows) |->
                 <<rows[r][1], rows[r][2], rows[r][3], str(rows[r][4])>>]]

\* a bug: the table is opened for appending, the rows of a call follow the
\* rows the file held
save_data_for_analysis_appending(fs, data_for_analysis, params) ==
    IF ~ isdir(params.store_path)
    THEN [files |-> fs, outcome |-> Raised("ValueError")]
    ELSE LET rows == errors_list(data_for_analysis, params.metrics_name)
             path == join(params.store_path,
                          CsvName(params.metrics_name,
                                  params.lect_a_name, params.lect_b_name))
         IN  IF IsRaised(rows)
             THEN [files |-> fs, outcome |-> rows]
             ELSE LET table == to_csv(rows.value, params)
                  IN  [files |-> OpenWrite(fs, path,
                                    IF fs[path].exists
                                    THEN [header |-> fs[path].content.header,
                                          rows |-> fs[path].content.rows
                                                   \o table.rows]
                                    ELSE table),
                       outcome |-> Returned(None)]

save_data_for_analysis(fs, data_for_analysis, params) ==
    IF ~ isdir(params.store_path)
    THEN [files |-> fs, outcome |-> Raised("ValueError")]
    ELSE LET rows == errors_list(data_for_analysis, params.metrics_name)
         IN  IF IsRaised(rows)
             THEN [files |-> fs, outcome |-> rows]
             ELSE [files |-> OpenWrite(fs,
                                 join(params.store_path,
                                      CsvName(params.metrics_name,
                                              params.lect_a_name, params.lect_b_name)),
                                 to_csv(rows.value, params)),
                   outcome |-> Returned(None)]

(***************************************************************************)
(* set_topic_range (data_preprocessing/topic_modelling.py)                 *)
(***************************************************************************)
\* an int | None field of LDAParams: None, or a number from below 0 to
\* beyond the number of topics
OptionalNumbers == {PyNone} \cup {PyInt(n) : n \in -1..(MaxTopics + 5)}

\* the fields of LDAParams that set_topic_range reads
LDAParams ==
    [num_topics : 0..MaxTopics,
     required_topics_num : OptionalNumbers,
     required_topics_start : OptionalNumbers]

\* lines 62-90: each if tests the truth value of the field first, which is
\* false for None and for 0
set_topic_range(params) ==
    LET num_topics == params.num_topics
        required_topics_num == params.required_topics_num
        required_topics_start == params.required_topics_start
    IN  IF /\ Truthy(required_topics_start)
           /\ \/ required_topics_start.value < 0
              \/ required_topics_start.value >= num_topics
        THEN Raised("ValueError")
        ELSE IF /\ Truthy(required_topics_num)
                /\ \/ required_topics_num.value < 0
                   \/ required_topics_num.value > num_topics
                   \/ /\ Truthy(required_topics_start)
                      /\ required_topics_start.value + required_topics_num.value
                            > num_topics
        THEN Raised("ValueError")
        ELSE LET first_topic_to_collect ==
                    IF Truthy(required_topics_start)
                    THEN required_topics_start.value ELSE 0
                 topic_range_limit ==
                    IF Truthy(required_topics_num)
                    THEN first_topic_to_collect + required_topics_num.value
                    ELSE num_topics
             IN  Returned(<<first_topic_to_collect, topic_range_limit>>)

(***************************************************************************)
(* Spec: the three recording functions called in any order, any number of  *)
(* times, on one filesystem that starts empty.                             *)
(***************************************************************************)
\* the trees and the data of Spec's calls: a part of Trees and AnalysisData
SomeTrees ==
    {Tree(r, Leaf("Croatian", 1), Inner(2, <<"Slovak", "Slovenian">>)) : r \in BOOLEAN}
    \cup {Tree(r, Inner(1, <<"Croatian", "Slovak">>), Leaf("Slovak", 2)) : r \in BOOLEAN}
SomeData ==
    {<<PyNone, PyNone>>,
     <<Dict(<<<<"kruh", 0>>>>),
       Tuple(<<Dict(<<<<"kruh", <<Tuple(<<"hlieb", 4>>)>>>>>>), Dict(<<>>)>>)>>}

\* the lines of a file's text
Lines(file) ==
    IF file.exists
    THEN Cardinality({k \in 1..Len(file.content) : file.content[k] = NL})
    ELSE 0

Init ==
    /\ lects = <<>>
    /\ pairwise_distances = <<>>
    /\ matrix_result = NotCalled
    /\ files = EmptyDisk
    /\ call = NotCalled
    /\ before = EmptyDisk

SaveDistancesInfo ==
    \E result \in Distances, params \in MeasurementInfoParams :
        /\ isdir(params.store_path) =>
            Lines(files[join(params.store_path, InfoName(params.metrics_name))])
                < MaxLines
        /\ LET done == save_distances_info(files, result, params)
           IN  /\ files' = done.files
               /\ call' = [op |-> "save_distances_info",
                           args |-> [result |-> result, params |-> params],
                           outcome |-> done.outcome]
        /\ before' = files
        /\ UNCHANGED <<lects, pairwise_distances, matrix_result>>

DetectOutgroup ==
    \E tree \in SomeTrees, outgroup \in ComparedLects, data_name \in DatasetNames,
       metrics \in MetricsNames, store_path \in StorePaths :
        /\ LET done == detect_outgroup(files, tree, outgroup, data_name,
                                       metrics, store_path)
           IN  /\ files' = done.files
               /\ call' = [op |-> "detect_outgroup",
                           args |-> [tree |-> tree, outgroup |-> outgroup,
                                     data_name |-> data_name, metrics |-> metrics,
                                     store_path |-> store_path],
                           outcome |-> done.outcome]
        /\ before' = files
        /\ UNCHANGED <<lects, pairwise_distances, matrix_result>>

SaveDataForAnalysis ==
    \E data_for_analysis \in SomeData, params \in MeasurementInfoParams :
        /\ LET done == save_data_for_analysis(files, data_for_analysis, params)
           IN  /\ files' = done.files
               /\ call' = [op |-> "save_data_for_analysis",
                           args |-> [data_for_analysis |-> data_for_analysis,
                                     params |-> params],
                           outcome |-> done.outcome]
        /\ before' = files
        /\ UNCHANGED <<lects, pairwise_distances, matrix_result>>

Next == SaveDistancesInfo \/ DetectOutgroup \/ SaveDataForAnalysis

Spec == Init /\ [][Next]_vars

(***************************************************************************)
(* SpecOutgroup: detect_outgroup called once, on any tree, on an empty     *)
(* directory or on one that holds a ledger.                                *)
(***************************************************************************)
LedgerDisk ==
    save_distances_info(EmptyDisk, 4,
        [dataset_name |-> "gospels", metrics_name |-> "hybrid",
         lect_a_name |-> "Croatian", lect_b_name |-> "Slovak",
         store_path |-> "out"]).files

InitOutgroup ==
    /\ lects = <<>>
    /\ pairwise_distances = <<>>
    /\ matrix_result = NotCalled
    /\ files \in {EmptyDisk, LedgerDisk}
    /\ call = NotCalled
    /\ before = files

DetectOutgroupOnce ==
    /\ call = NotCalled
    /\ \E tree \in Trees, outgroup \in LectNames, data_name \in DatasetNames,
          metrics \in MetricsNames, store_path \in StorePaths :
        /\ LET done == detect_outgroup(files, tree, outgroup, data_name,
                                       metrics, store_path)
           IN  /\ files' = done.files
               /\ call' = [op |-> "detect_outgroup",
                           args |-> [tree |-> tree, outgroup |-> outgroup,
                                     data_name |-> data_name, metrics |-> metrics,
                                     store_path |-> store_path],
                           outcome |-> done.outcome]
        /\ before' = files
        /\ UNCHANGED <<lects, pairwise_distances, matrix_result>>

NextOutgroup == DetectOutgroupOnce

SpecOutgroup == InitOutgroup /\ [][NextOutgroup]_vars

(***************************************************************************)
(* SpecAnalysis: save_data_for_analysis called once, on any data, in an    *)
(* existing directory that is empty or holds the table of an earlier call. *)
(***************************************************************************)
StaleCsvDisk ==
    save_data_for_analysis(EmptyDisk,
        <<Dict(<<<<"voda", 0>>>>), PyNone>>,
        [dataset_name |-> "gospels", metrics_name |-> "hybrid",
         lect_a_name |-> "Croatian", lect_b_name |-> "Slovak",
         store_path |-> "out"]).files

InitAnalysis ==
    /\ lects = <<>>
    /\ pairwise_distances = <<>>
    /\ matrix_result = NotCalled
    /\ files \in {EmptyDisk, StaleCsvDisk}
    /\ call = NotCalled
    /\ before = files

SaveDataForAnalysisOnce ==
    /\ call = NotCalled
    /\ \E data_for_analysis \in AnalysisData,
          params \in {p \in MeasurementInfoParams :
                         isdir(p.store_path) /\ p.lect_a_name = "Croatian"} :
        /\ LET done == save_data_for_analysis(files, data_for_analysis, params)
           IN  /\ files' = done.files
               /\ call' = [op |-> "save_data_for_analysis",
                           args |-> [data_for_analysis |-> data_for_analysis,
                                     params |-> params],
                           outcome |-> done.outcome]
        /\ before' = files
        /\ UNCHANGED <<lects, pairwise_distances, matrix_result>>

NextAnalysis == SaveDataForAnalysisOnce

SpecAnalysis == InitAnalysis /\ [][NextAnalysis]_vars

(***************************************************************************)
(* SpecShapes: save_data_for_analysis called once, in an existing          *)
(* directory, on hybrid maps whose sequences hold more than pairs.         *)
(***************************************************************************)
\* what a caller can put where a (n-gram, distance) pair belongs: the pair,
\* a number, and tuples of no, one and three items
Elements(ngrams) ==
    {Tuple(<<n, d>>) : n \in ngrams, d \in Distances}
    \cup {PyInt(d) : d \in Distances}
    \cup {Tuple(<<>>)}
    \cup {Tuple(<<n>>) : n \in ngrams}
    \cup {Tuple(<<n, d, d>>) : n \in ngrams, d \in Distances}

\* the maps of one key to a sequence of such elements
ShapedMaps(keys, ngrams) ==
    {Dict(<<<<k, list>>>>) : k \in keys,
                            list \in SeqsUpTo(Elements(ngrams), MaxPairs)}

\* the other map of the pair: absent, empty, or one key with one pair
PlainForwardMaps == {PyNone, Dict(<<>>), Dict(<<<<"kruh", <<Tuple(<<"hlieb", 4>>)>>>>>>)}
PlainBackwardMaps == {PyNone, Dict(<<>>), Dict(<<<<"hlieb", <<Tuple(<<"voda", 5>>)>>>>>>)}

ShapedData ==
    {<<PyNone, Tuple(<<f, b>>)>> :
        f \in ShapedMaps(NGramsA, NGramsB), b \in PlainBackwardMaps}
    \cup {<<PyNone, Tuple(<<f, b>>)>> :
        f \in PlainForwardMaps, b \in ShapedMaps(NGramsB, NGramsA)}

InitShapes ==
    /\ lects = <<>>
    /\ pairwise_distances = <<>>
    /\ matrix_result = NotCalled
    /\ files \in {EmptyDisk, StaleCsvDisk}
    /\ call = NotCalled
    /\ before = files

SaveShapedDataForAnalysis ==
    /\ call = NotCalled
    /\ \E data_for_analysis \in ShapedData,
          params \in {p \in MeasurementInfoParams :
                         isdir(p.store_path) /\ p.lect_a_name = "Croatian"} :
        /\ LET done == save_data_for_analysis(files, data_for_analysis, params)
           IN  /\ files' = done.files
               /\ call' = [op |-> "save_data_for_analysis",
                           args |-> [data_for_analysis |-> data_for_analysis,
                                     params |-> params],
                           outcome |-> done.outcome]
        /\ before' = files
        /\ UNCHANGED <<lects, pairwise_distances, matrix_result>>

NextShapes == SaveShapedDataForAnalysis

SpecShapes == InitShapes /\ [][NextShapes]_vars

(***************************************************************************)
(* SpecTopics: set_topic_range called once on any parameters.              *)
(***************************************************************************)
InitTopics ==
    /\ lects = <<>>
    /\ pairwise_distances = <<>>
    /\ matrix_result = NotCalled
    /\ files = EmptyDisk
    /\ call = NotCalled
    /\ before = EmptyDisk

SetTopicRange ==
    /\ call = NotCalled
    /\ \E params \in LDAParams :
          call' = [op |-> "set_topic_range",
                   args |-> [params |-> params],
                   outcome |-> set_topic_range(params)]
    /\ UNCHANGED <<lects, pairwise_distances, matrix_result, files, before>>

NextTopics == SetTopicRange

SpecTopics == InitTopics /\ [][NextTopics]_vars

(***************************************************************************)
(* SpecMatrix: create_distance_matrix called once on any input.            *)
(***************************************************************************)
\* the inputs: any order of any of the lects, and up to MaxRecords records,
\* in any order, with repetitions and gaps, of distances between them
InitMatrix ==
    /\ lects \in DistinctSeqsUpTo(LectNames, Cardinality(LectNames))
    /\ pairwise_distances \in
            SeqsUpTo(PairwiseRecords({lects[i] : i \in 1..Len(lects)}), MaxRecords)
    /\ matrix_result = NotCalled
    /\ files = EmptyDisk
    /\ call = NotCalled
    /\ before = EmptyDisk

CreateDistanceMatrix ==
    /\ matrix_result = NotCalled
    /\ matrix_result' = create_distance_matrix(pairwise_distances, lects)
    /\ UNCHANGED <<lects, pairwise_distances, files, call, before>>

NextMatrix == CreateDistanceMatrix

SpecMatrix == InitMatrix /\ [][NextMatrix]_vars

(***************************************************************************)
(* Claims about create_distance_matrix, checked under SpecMatrix.          *)
(***************************************************************************)
MatrixCalled == matrix_result # NotCalled

\* record k of the input lists the two names x and y, in either order
RecordIsFor(k, x, y) ==
    \/ pairwise_distances[k][1] = <<x, y>>
    \/ pairwise_distances[k][1] = <<y, x>>

RecordsFor(x, y) == {k \in 1..Len(pairwise_distances) : RecordIsFor(k, x, y)}

EveryPairRecorded ==
    \A i \in 1..Len(lects) : \A j \in 1..(i - 1) :
        RecordsFor(lects[i], lects[j]) # {}

ExactlyOneRecordPerPair ==
    \A i \in 1..Len(lects) : \A j \in 1..(i - 1) :
        Cardinality(RecordsFor(lects[i], lects[j])) = 1

\* C1: with a record for every unordered pair of the n distinct lects, the
\* call returns n rows, row i (0-based) has i+1 entries and its last entry,
\* the diagonal, is 0.
C1_LowerTriangularShape ==
    (MatrixCalled /\ EveryPairRecorded) =>
        /\ IsReturned(matrix_result)
        /\ Len(matrix_result.value) = Len(lects)
        /\ \A i \in 1..Len(lects) :
            /\ Len(matrix_result.value[i]) = i
            /\ matrix_result.value[i][i] = 0

C1_Witness ==
    /\ MatrixCalled
    /\ EveryPairRecorded
    /\ Len(lects) = 3

\* C2: entry (i, j), j < i, of the returned matrix is the distance of the
\* first record, in input order, whose two names are lects[i] and lects[j]
\* in either order.
C2_FirstMatchingRecord ==
    IsReturned(matrix_result) =>
        \A i \in 1..Len(lects) : \A j \in 1..(i - 1) :
            \E k \in RecordsFor(lects[i], lects[j]) :
                /\ \A e \in RecordsFor(lects[i], lects[j]) : k <= e
                /\ matrix_result.value[i][j] = pairwise_distances[k][2]

C2_Witness ==
    /\ IsReturned(matrix_result)
    /\ Len(lects) >= 2
    /\ \E k, e \in RecordsFor(lects[2], lects[1]) :
        /\ k < e
        /\ pairwise_distances[k][1] # pairwise_distances[e][1]
        /\ pairwise_distances[k][2] # pairwise_distances[e][2]

OrdersOf(n) ==
    {p \in [1..n -> 1..n] : \A a, b \in 1..n : a # b => p[a] # p[b]}

\* the record list in the order p, the records in flipped with their two
\* names exchanged
Rearranged(pd, p, flipped) ==
    [k \in 1..Len(pd) |->
        IF k \in flipped
        THEN <<<<pd[p[k]][1][2], pd[p[k]][1][1]>>, pd[p[k]][2]>>
        ELSE pd[p[k]]]

\* C3: with exactly one record per unordered pair of distinct lects, every
\* permutation of the record list, with the two names of any records
\* exchanged, gives the same result.
C3_RecordOrderIrrelevant ==
    (MatrixCalled /\ ExactlyOneRecordPerPair) =>
        \A p \in OrdersOf(Len(pairwise_distances)) :
            \A flipped \in SUBSET (1..Len(pairwise_distances)) :
                create_distance_matrix(
                    Rearranged(pairwise_distances, p, flipped), lects)
                    = matrix_result

C3_Witness ==
    /\ IsReturned(matrix_result)
    /\ ExactlyOneRecordPerPair
    /\ Len(lects) = 3
    /\ matrix_result.value[2][1] # matrix_result.value[3][1]
    /\ ~ RecordIsFor(1, lects[2], lects[1])

\* C4: when some unordered pair of lects has no record, the call ends with
\* an error and returns no matrix.
C4_MissingPairRaises ==
    (MatrixCalled /\ ~ EveryPairRecorded) =>
        matrix_result = Raised("IndexError")

C4_Witness ==
    /\ MatrixCalled
    /\ ~ EveryPairRecorded
    /\ Len(lects) = 3
    /\ RecordsFor(lects[2], lects[1]) # {}

(***************************************************************************)
(* Claims about the recording functions.                                   *)
(***************************************************************************)
CallIs(op) == call # NotCalled /\ call.op = op
CallReturned == call # NotCalled /\ IsReturned(call.outcome)
CallRaised == call # NotCalled /\ IsRaised(call.outcome)

\* the store_path, the metrics name and the .info file of the last call
CallStorePath ==
    IF call.op = "detect_outgroup" THEN call.args.store_path
    ELSE call.args.params.store_path
CallMetrics ==
    IF call.op = "detect_outgroup" THEN call.args.metrics
    ELSE call.args.params.metrics_name
CallInfoPath == <<CallStorePath, <<CallMetrics, ".info">>>>

\* what a file holds on a disk, nothing when it is absent
TextOf(disk, path) == IF disk[path].exists THEN disk[path].content ELSE <<>>

\* C5: a successful save_distances_info leaves <store_path>/<metrics_name>.info
\* holding what it held before, followed by one line: dataset_name,
\* metrics_name, lect_a_name, lect_b_name and the distance joined by tabs.
\* By induction over the calls, a sequence of them leaves the first contents
\* followed by one line per call, in call order.
C5_LedgerAppendOnly ==
    (CallIs("save_distances_info") /\ CallReturned) =>
        /\ files[CallInfoPath].exists
        /\ files[CallInfoPath].content =
             TextOf(before, CallInfoPath)
             \o <<call.args.params.dataset_name, TAB,
                  call.args.params.metrics_name, TAB,
                  call.args.params.lect_a_name, TAB,
                  call.args.params.lect_b_name, TAB,
                  ToString(call.args.result), NL>>

\* the second of two ledger lines for different lect pairs has been written
C5_Witness ==
    /\ CallIs("save_distances_info")
    /\ CallReturned
    /\ Len(TextOf(before, CallInfoPath)) = 10
    /\ Len(TextOf(files, CallInfoPath)) = 20
    /\ files[CallInfoPath].content[5] # files[CallInfoPath].content[15]

\* C6: a call with a store_path that is no existing directory, and a
\* detect_outgroup call with an unrooted tree, raise an error and leave
\* every file as it was.
C6_FailedCallWritesNothing ==
    (/\ call # NotCalled
     /\ \/ CallStorePath \notin Directories
        \/ CallIs("detect_outgroup") /\ ~ call.args.tree.rooted) =>
        /\ CallRaised
        /\ files = before

\* detect_outgroup has refused an unrooted tree in a directory that holds a
\* ledger
C6_Witness ==
    /\ CallIs("detect_outgroup")
    /\ ~ call.args.tree.rooted
    /\ CallStorePath \in Directories
    /\ CallRaised
    /\ before[CallInfoPath].exists

\* the tab-separated fields of the verdict that detect_outgroup wrote: the
\* status, the outgroup length and the ingroup length, the last without the
\* indentation that precedes it in the file
VerdictStatus == files[CallInfoPath].content[3]
VerdictOutgroupLength == files[CallInfoPath].content[5]
VerdictIngroupLength ==
    files[CallInfoPath].content[Len(files[CallInfoPath].content)]
RootChild(k) == call.args.tree.clade.clades[k]

\* C7: the status is CORRECT exactly when the outgroup is the name of one
\* of the two root children; then the outgroup length is that child's branch
\* length and the ingroup length the other child's; otherwise both are NA.
C7_VerdictFromRootChildren ==
    (CallIs("detect_outgroup") /\ CallReturned) =>
        /\ VerdictStatus \in {"CORRECT", "INCORRECT"}
        /\ VerdictStatus = "CORRECT" <=>
             \E k \in {1, 2} : RootChild(k).name = call.args.outgroup
        /\ VerdictStatus = "CORRECT" =>
             \E k \in {1, 2} :
                /\ RootChild(k).name = call.args.outgroup
                /\ VerdictOutgroupLength = ToString(RootChild(k).branch_length)
                /\ VerdictIngroupLength = ToString(RootChild(3 - k).branch_length)
        /\ VerdictStatus = "INCORRECT" =>
             /\ VerdictOutgroupLength = "NA"
             /\ VerdictIngroupLength = "NA"

\* the outgroup is the second root child, with a length unlike the first's
C7_Witness ==
    /\ CallIs("detect_outgroup")
    /\ CallReturned
    /\ RootChild(2).name = call.args.outgroup
    /\ RootChild(1).name # call.args.outgroup
    /\ RootChild(1).branch_length # RootChild(2).branch_length
    /\ VerdictStatus = "CORRECT"

\* the outgroup is a leaf below a root child and not a root child
C7_WitnessDeeper ==
    /\ CallIs("detect_outgroup")
    /\ CallReturned
    /\ \E k \in {1, 2} : \E e \in 1..Len(RootChild(k).clades) :
          RootChild(k).clades[e].name = call.args.outgroup
    /\ VerdictStatus = "INCORRECT"

\* C8: after a successful detect_outgroup every line the .info file held
\* before the call is still there, in the same order, followed by the
\* verdict.
C8_VerdictAppended ==
    (CallIs("detect_outgroup") /\ CallReturned) =>
        /\ Len(files[CallInfoPath].content) > Len(TextOf(before, CallInfoPath))
        /\ SubSeq(files[CallInfoPath].content, 1, Len(TextOf(before, CallInfoPath)))
             = TextOf(before, CallInfoPath)

\* the rows of the table the last call wrote
CallCsvPath ==
    <<CallStorePath,
      <<CallMetrics, "_", call.args.params.lect_a_name, "_",
        call.args.params.lect_b_name, ".csv">>>>
CsvRows == files[CallCsvPath].content.rows

\* the items of a map, none when the map is absent
ItemsOf(map) == IF map.py = "None" THEN <<>> ELSE map.items
IdentityItems == ItemsOf(call.args.data_for_analysis[1])
ForwardItems ==
    IF ItemsOf(call.args.data_for_analysis[2]) = <<>> THEN <<>>
    ELSE ItemsOf(call.args.data_for_analysis[2].items[1])
BackwardItems ==
    IF ItemsOf(call.args.data_for_analysis[2]) = <<>> THEN <<>>
    ELSE ItemsOf(call.args.data_for_analysis[2].items[2])

\* the (key, pair) places of a hybrid map
PairsOf(items) ==
    UNION {{<<k, e>> : e \in 1..Len(items[k][2])} : k \in 1..Len(items)}

IsIdentityRow(row, item, metrics) ==
    /\ row[1] = item[1]
    /\ row[2] = "id."
    /\ row[3] = <<metrics, " - DistRank">>
ForwardRow(items, at, metrics) ==
    <<items[at[1]][1], items[at[1]][2][at[2]].items[1],
      <<metrics, " - hybrid">>, ToString(items[at[1]][2][at[2]].items[2])>>
BackwardRow(items, at, metrics) ==
    <<items[at[1]][2][at[2]].items[1], items[at[1]][1],
      <<metrics, " - hybrid">>, ToString(items[at[1]][2][at[2]].items[2])>>

\* C9: the table has one row per key of the identity map, one per (key,
\* pair) of the forward map and one per (key, pair) of the backward map, and
\* no other row; a forward row is (key, counterpart, label, distance), a
\* backward row (counterpart, key, label, distance), so a hybrid row has lect
\* A's n-gram in column 1 and lect B's in column 2.
C9_RowsOfTheTable ==
    (CallIs("save_data_for_analysis") /\ CallReturned) =>
        LET rows == CsvRows
            metrics == CallMetrics
            identity == IdentityItems
            forward == ForwardItems
            backward == BackwardItems
            forward_pairs == PairsOf(forward)
            backward_pairs == PairsOf(backward)
            \* how many keys and (key, pair) places call for the row
            Expected(row) ==
                Cardinality({k \in 1..Len(identity) :
                                IsIdentityRow(row, identity[k], metrics)})
                + Cardinality({at \in forward_pairs :
                                ForwardRow(forward, at, metrics) = row})
                + Cardinality({at \in backward_pairs :
                                BackwardRow(backward, at, metrics) = row})
        IN  /\ Len(rows) =
                 Len(identity) + Cardinality(forward_pairs)
                 + Cardinality(backward_pairs)
            /\ \A r \in 1..Len(rows) :
                 /\ Cardinality({e \in 1..Len(rows) : rows[e] = rows[r]})
                      = Expected(rows[r])
                 /\ rows[r][3] = <<metrics, " - hybrid">> =>
                      rows[r][1] \in NGramsA /\ rows[r][2] \in NGramsB

\* all three maps have rows, a key of the forward map has two pairs
C9_Witness ==
    /\ CallIs("save_data_for_analysis")
    /\ CallReturned
    /\ Len(IdentityItems) = 2
    /\ \E k \in 1..Len(ForwardItems) : Len(ForwardItems[k][2]) = 2
    /\ Cardinality(PairsOf(BackwardItems)) >= 1

SomeMapEmptyOrAbsent ==
    \/ IdentityItems = <<>>
    \/ ItemsOf(call.args.data_for_analysis[2]) = <<>>
    \/ ForwardItems = <<>>
    \/ BackwardItems = <<>>

\* C10: in an existing directory, a call with an empty or absent identity
\* map, hybrid-map pair, forward map or backward map completes and writes the
\* header and the rows of the other maps: none for the empty or absent one,
\* the header alone when all are empty or absent.
C10_EmptyOrAbsentMaps ==
    (/\ CallIs("save_data_for_analysis")
     /\ CallStorePath \in Directories
     /\ SomeMapEmptyOrAbsent) =>
        /\ CallReturned
        /\ files[CallCsvPath].exists
        /\ files[CallCsvPath].content.header =
             <<call.args.params.lect_a_name, call.args.params.lect_b_name,
               CallMetrics, "Distance">>
        /\ LET rows == CsvRows
               metrics == CallMetrics
               hybrids == Cardinality(PairsOf(ForwardItems))
                          + Cardinality(PairsOf(BackwardItems))
           IN  /\ Cardinality({r \in 1..Len(rows) :
                                  rows[r][3] = <<metrics, " - DistRank">>})
                    = Len(IdentityItems)
               /\ Cardinality({r \in 1..Len(rows) :
                                  rows[r][3] = <<metrics, " - hybrid">>})
                    = hybrids
               /\ Len(rows) = Len(IdentityItems) + hybrids

\* the identity map is absent and the backward map is absent, the forward
\* map has rows, and the table of an earlier call was in the way
C10_Witness ==
    /\ CallIs("save_data_for_analysis")
    /\ CallReturned
    /\ call.args.data_for_analysis[1] = PyNone
    /\ ForwardItems # <<>>
    /\ Cardinality(PairsOf(ForwardItems)) >= 1
    /\ call.args.data_for_analysis[2].items[2] = PyNone
    /\ before[CallCsvPath].exists
    /\ Len(CsvRows) = Cardinality(PairsOf(ForwardItems))

(***************************************************************************)
(* Claims about the shape of the hybrid maps, checked under SpecShapes.    *)
(***************************************************************************)
IsPair(j) == j.py = "tuple" /\ Len(j.items) = 2

\* the (key, element) places of a hybrid map whose element is not a pair
NotPairsOf(items) == {at \in PairsOf(items) : ~ IsPair(items[at[1]][2][at[2]])}

SomeValueNotPairs ==
    NotPairsOf(ForwardItems) # {} \/ NotPairsOf(BackwardItems) # {}

\* C11: when a value of the forward or the backward map is not a sequence of
\* (n-gram, distance) pairs (an element is not a sequence, or is a sequence
\* whose length is not 2), the call is rejected with an error and no file is
\* created or modified: no such input is accepted and turned into rows.
C11_MalformedValueRejected ==
    (CallIs("save_data_for_analysis") /\ SomeValueNotPairs) =>
        /\ CallRaised
        /\ files = before

\* what the code does with such a value: a number or a tuple too short for
\* j[0] and j[1] ends the call with TypeError or IndexError and leaves the
\* files alone; anything else is taken as a pair
C11_OnlyShortOrUnsubscriptableRejected ==
    (CallIs("save_data_for_analysis") /\ SomeValueNotPairs) =>
        LET unreadable(items) ==
                {at \in PairsOf(items) :
                    LET j == items[at[1]][2][at[2]]
                    IN  j.py # "tuple" \/ Len(j.items) < 2}
            rejected == unreadable(ForwardItems) # {}
                        \/ unreadable(BackwardItems) # {}
        IN  /\ rejected <=>
                 (CallRaised /\ call.outcome.exception \in {"TypeError", "IndexError"})
            /\ rejected => files = before
            /\ ~ rejected => CallReturned

\* a tuple of three items in the forward map became a row of the table
C11_ThreeItemsAccepted ==
    /\ CallIs("save_data_for_analysis")
    /\ CallReturned
    /\ \E at \in NotPairsOf(ForwardItems) :
          Len(ForwardItems[at[1]][2][at[2]].items) = 3
    /\ Len(CsvRows) >= 1

(***************************************************************************)
(* Claims about repeated save_data_for_analysis calls, checked under Spec. *)
(***************************************************************************)
\* C12: a successful save_data_for_analysis leaves
\* <metrics_name>_<lect_a_name>_<lect_b_name>.csv holding the header and the
\* rows of this call and nothing of what the file held before, and leaves
\* every other file, the .info files among them, as it was. Every call of a
\* sequence of such calls is at one time the last, so after the sequence the
\* table is the last call's and no .info file was touched by any of them.
C12_TableOfTheLastCallOnly ==
    (CallIs("save_data_for_analysis") /\ CallReturned) =>
        LET rows == CsvRows
            metrics == CallMetrics
            identity == IdentityItems
            forward == ForwardItems
            backward == BackwardItems
        IN  /\ files[CallCsvPath].exists
            /\ files[CallCsvPath].content.header =
                 <<call.args.params.lect_a_name, call.args.params.lect_b_name,
                   metrics, "Distance">>
            /\ Len(rows) = Len(identity) + Cardinality(PairsOf(forward))
                             + Cardinality(PairsOf(backward))
            /\ \A r \in 1..Len(rows) :
                 \/ \E k \in 1..Len(identity) :
                        /\ IsIdentityRow(rows[r], identity[k], metrics)
                        /\ rows[r][4] = ToString(identity[k][2])
                 \/ \E at \in PairsOf(forward) :
                        rows[r] = ForwardRow(forward, at, metrics)
                 \/ \E at \in PairsOf(backward) :
                        rows[r] = BackwardRow(backward, at, metrics)
            /\ \A path \in FilePaths \ {CallCsvPath} : files[path] = before[path]

\* a call without rows found the table of an earlier call with two rows,
\* next to a ledger, and left the header alone in the table
C12_Witness ==
    /\ CallIs("save_data_for_analysis")
    /\ CallReturned
    /\ before[CallCsvPath].exists
    /\ Len(before[CallCsvPath].content.rows) = 2
    /\ CsvRows = <<>>
    /\ before[<<CallStorePath, <<CallMetrics, ".info">>>>].exists

\* a call with rows found a table without rows
C12_WitnessRowsAfterNone ==
    /\ CallIs("save_data_for_analysis")
    /\ CallReturned
    /\ before[CallCsvPath].exists
    /\ before[CallCsvPath].content.rows = <<>>
    /\ Len(CsvRows) = 2

(***************************************************************************)
(* Claims about set_topic_range, checked under SpecTopics.                 *)
(***************************************************************************)
\* the field is a number, 0 included
IsGiven(v) == v.py = "int"

\* C13: set_topic_range raises ValueError when required_topics_num is
\* negative or greater than num_topics, when required_topics_start is
\* negative or not less than num_topics, or when required_topics_start +
\* required_topics_num exceeds num_topics; otherwise it returns (first, limit)
\* with first = required_topics_start when that is given and 0 when not, and
\* limit = first + required_topics_num when that is given and num_topics
\* when not.
C13_TopicRange ==
    CallIs("set_topic_range") =>
        LET params == call.args.params
            num == params.required_topics_num
            start == params.required_topics_start
            refused ==
                \/ IsGiven(num) /\ (num.value < 0 \/ num.value > params.num_topics)
                \/ IsGiven(start)
                   /\ (start.value < 0 \/ start.value >= params.num_topics)
                \/ /\ IsGiven(start)
                   /\ IsGiven(num)
                   /\ start.value + num.value > params.num_topics
            first == IF IsGiven(start) THEN start.value ELSE 0
            limit == IF IsGiven(num) THEN first + num.value ELSE params.num_topics
        IN  IF refused
            THEN call.outcome = Raised("ValueError")
            ELSE call.outcome = Returned(<<first, limit>>)

\* what the code does: the statement of C13 holds of every call whose
\* required_topics_num is not 0 and whose required_topics_start is not 0
\* with no topics at all
C13_HoldsButForZero ==
    CallIs("set_topic_range") =>
        LET params == call.args.params
            zero(v) == IsGiven(v) /\ v.value = 0
        IN  (/\ ~ zero(params.required_topics_num)
             /\ ~ (zero(params.required_topics_start) /\ params.num_topics = 0))
                => C13_TopicRange

\* zero topics were asked for, of a model with topics, and all were given
C13_ZeroTopicsAskedAllGiven ==
    /\ CallIs("set_topic_range")
    /\ call.args.params.required_topics_num = PyInt(0)
    /\ call.args.params.required_topics_start = PyNone
    /\ call.args.params.num_topics = MaxTopics
    /\ call.outcome = Returned(<<0, MaxTopics>>)

\* the cases of TestSetTopicRange, which has the default of ten topics
TestSetTopicRange ==
    LET params(num, start) ==
            [num_topics |-> 10, required_topics_num |-> num,
             required_topics_start |-> start]
    IN  /\ set_topic_range(params(PyInt(15), PyNone)) = Raised("ValueError")
        /\ set_topic_range(params(PyInt(-1), PyNone)) = Raised("ValueError")
        /\ set_topic_range(params(PyInt(5), PyInt(7))) = Raised("ValueError")
        /\ set_topic_range(params(PyInt(5), PyInt(-1))) = Raised("ValueError")
        /\ set_topic_range(params(PyInt(5), PyNone)) = Returned(<<0, 5>>)
        /\ set_topic_range(params(PyNone, PyInt(2))) = Returned(<<2, 10>>)
        /\ set_topic_range(params(PyInt(5), PyInt(5))) = Returned(<<5, 10>>)
        /\ set_topic_range(params(PyNone, PyNone)) = Returned(<<0, 10>>)

====
